---- MODULE Spec2Model ----
(***************************************************************************)
(* Model of src/agent.py: the per-call control logic of the phone          *)
(* assistant.  One call is handled by the entrypoint coroutine, by one     *)
(* asyncio task per DTMF event and by one tool invocation per voice        *)
(* intent.  Every action below is one run of a coroutine between two       *)
(* suspension points (await), which the cooperative scheduler executes     *)
(* atomically.                                                             *)
(*                                                                         *)
(* The name `api` used at agent.py:144 is not bound by the imports of      *)
(* agent.py:14-22, so the constructor call at line 144 raises in the file  *)
(* as given; the constructor can also raise on missing credentials.  The   *)
(* model lets the construction either return a handle or raise, and the    *)
(* raise is handled by the except clause of line 161 like any other.       *)
(***************************************************************************)
EXTENDS Integers, Sequences, FiniteSets, TLC

\* Bound on the number of selection events (DTMF tones and tool
\* invocations) that one call receives.
MaxEvents == 2

\* ---------------------------------------------------------------------
\* Values
\* ---------------------------------------------------------------------

\* Python's None as returned by os.getenv for an unset variable.
PyNone == "<None>"

\* The unset value of UserData.livekit_api (agent.py:44).
NoApi == 0

EnvVars == {"BILLING_PHONE_NUMBER", "TECH_SUPPORT_PHONE_NUMBER",
            "CUSTOMER_SERVICE_PHONE_NUMBER"}

\* The address .env.local configures for a variable when it is set.
ConfiguredAddress(v) ==
    CASE v = "BILLING_PHONE_NUMBER" -> "+15550001"
      [] v = "TECH_SUPPORT_PHONE_NUMBER" -> "+15550002"
      [] v = "CUSTOMER_SERVICE_PHONE_NUMBER" -> "+15550003"

\* The configurations of .env.local considered: complete, or with one
\* destination left out.
UnsetChoices == {{}, {"TECH_SUPPORT_PHONE_NUMBER"}}

Departments == {"Billing", "Tech Support", "Customer Service"}

\* The digits a tone event can carry: the three menu digits and one other.
Digits == {"1", "2", "3", "5"}

\* dtmf_event.participant.identity: the SIP caller who pressed the key.
CallerIdentity == "sip-caller"

\* room.local_participant.identity: the agent's own participant.
LocalIdentity == "agent"

\* userdata.ctx.room.name
RoomName == "call-room"

NoRequest ==
    [participant_identity |-> "", room_name |-> "", transfer_to |-> "",
     play_dialtone |-> FALSE]

VARIABLES
    env,                 \* os.environ restricted to the three destinations
    entry,               \* position of the entrypoint coroutine
    disconnected,        \* disconnect_event is set
    selected_department, \* UserData.selected_department
    livekit_api,         \* UserData.livekit_api: NoApi or a handle id
    handles,             \* every LiveKitAPI client created: open?, closes
    speaking,            \* the last utterance requested and not interrupted
    tasks                \* one record per selection event, in arrival order

vars == <<env, entry, disconnected, selected_department, livekit_api,
          handles, speaking, tasks>>

TaskIds == 1..Len(tasks)

\* ---------------------------------------------------------------------
\* Pure functions
\* ---------------------------------------------------------------------

\* os.getenv(v)
Getenv(v) == env[v]

\* f"{value}": Python formats None as the four letters None.
FormatStr(value) == IF value = PyNone THEN "None" ELSE value

\* Variant of department_numbers: the variables of digits 2 and 3 are exchanged.
department_numbers_swapped ==
    [d \in {"1", "2", "3"} |->
        CASE d = "1" -> <<"BILLING_PHONE_NUMBER", "Billing">>
          [] d = "2" -> <<"CUSTOMER_SERVICE_PHONE_NUMBER", "Tech Support">>
          [] d = "3" -> <<"TECH_SUPPORT_PHONE_NUMBER", "Customer Service">>]

\* The department_numbers table of _async_handle_dtmf:
\* digit -> <<environment variable, department name>>.
department_numbers ==
    [d \in {"1", "2", "3"} |->
        CASE d = "1" -> <<"BILLING_PHONE_NUMBER", "Billing">>
          [] d = "2" -> <<"TECH_SUPPORT_PHONE_NUMBER", "Tech Support">>
          [] d = "3" -> <<"CUSTOMER_SERVICE_PHONE_NUMBER", "Customer Service">>]

\* The three function tools: department name -> environment variable read.
ToolEnvVar(dept) ==
    CASE dept = "Billing" -> "BILLING_PHONE_NUMBER"
      [] dept = "Tech Support" -> "TECH_SUPPORT_PHONE_NUMBER"
      [] dept = "Customer Service" -> "CUSTOMER_SERVICE_PHONE_NUMBER"

\* The string a function tool returns.
ToolResult(dept) == "Transferring to " \o dept \o " department."

\* proto_sip.TransferSIPParticipantRequest(...) of transfer_call.
TransferRequest(participant_identity, transfer_to) ==
    [participant_identity |-> participant_identity,
     room_name |-> RoomName,
     transfer_to |-> transfer_to,
     play_dialtone |-> TRUE]

\* Variant of Caught: only a failed request is handled.
CaughtSubmitOnly(cause) == cause = "submit"

\* `except Exception` of transfer_call: which failures of the try block
\* it handles.  cause is "create" (the client constructor raised),
\* "closed" (the client was already closed) or "submit" (the request failed).
Caught(cause) == cause \in {"create", "closed", "submit"}

\* ---------------------------------------------------------------------
\* Task records
\* ---------------------------------------------------------------------

\* A transfer is in flight from the write to selected_department until
\* the submission has resolved.
InFlightPcs == {"announcing", "sleeping", "submitting"}

InFlight(t) == tasks[t].pc \in InFlightPcs

InFlightSet == {t \in TaskIds : InFlight(t)}

\* The record of a selection event at its arrival.  Four fields are
\* history kept for the properties and read by no action: before (the
\* transfers in flight at the arrival), blockers (those of them still in
\* flight when this event wrote selected_department), afterFailure (a
\* transfer had failed before the arrival) and discInWait (the call
\* disconnected while this transfer was in its grace wait).
NewTask(kind, token) ==
    [kind |-> kind, token |-> token, pc |-> "scheduled",
     identity |-> "", transfer_number |-> "", department |-> "",
     announced |-> "", interrupted |-> FALSE, reprompted |-> FALSE,
     submitted |-> FALSE, request |-> NoRequest, handle |-> NoApi,
     cause |-> "none", outcome |-> "none", apology |-> FALSE,
     result |-> "", before |-> InFlightSet, blockers |-> {},
     afterFailure |-> \E u \in TaskIds : tasks[u].outcome = "failed",
     discInWait |-> FALSE]

\* ---------------------------------------------------------------------
\* Initial state: the worker has dispatched the job and entrypoint is
\* about to run; the environment was loaded by load_dotenv.
\* ---------------------------------------------------------------------
Init ==
    /\ \E unset \in UnsetChoices :
          env = [v \in EnvVars |->
                   IF v \in unset THEN PyNone ELSE ConfiguredAddress(v)]
    /\ entry = "connect"
    /\ disconnected = FALSE
    /\ selected_department = PyNone
    /\ livekit_api = NoApi
    /\ handles = <<>>
    /\ speaking = "none"
    /\ tasks = <<>>

\* ---------------------------------------------------------------------
\* entrypoint
\* ---------------------------------------------------------------------

\* agent.py:218-245: connect, build the session, register the handlers,
\* start the session (on_enter speaks the greeting) and wait for the
\* disconnect event.  Nothing here reads the destination variables.
EntrypointStart ==
    /\ entry = "connect"
    /\ entry' = "waiting"
    /\ speaking' = "greeting"
    /\ UNCHANGED <<env, disconnected, selected_department, livekit_api,
                   handles, tasks>>

\* on_room_disconnect: the room reports the disconnect.
Disconnect ==
    /\ entry = "waiting"
    /\ ~disconnected
    /\ disconnected' = TRUE
    /\ tasks' = [t \in TaskIds |->
                   IF tasks[t].pc = "sleeping"
                   THEN [tasks[t] EXCEPT !.discInWait = TRUE]
                   ELSE tasks[t]]
    /\ UNCHANGED <<env, entry, selected_department, livekit_api, handles,
                   speaking>>

\* The finally block up to the await of aclose(): closes the client when
\* one exists.
TeardownClose ==
    /\ entry = "waiting"
    /\ disconnected
    /\ IF livekit_api # NoApi
       THEN /\ handles' = [handles EXCEPT ![livekit_api] =
                              [open |-> FALSE, closes |-> @.closes + 1]]
            /\ entry' = "closing"
       ELSE /\ handles' = handles
            /\ entry' = "done"
    /\ UNCHANGED <<env, disconnected, selected_department, livekit_api,
                   tasks,
                   speaking>>

\* Variant of TeardownClear: the teardown also resets selected_department.
TeardownClearResetsSelection ==
    /\ entry = "closing"
    /\ livekit_api' = NoApi
    /\ selected_department' = PyNone
    /\ entry' = "done"
    /\ UNCHANGED <<env, disconnected, handles, tasks, speaking>>

\* After aclose() returned: userdata.livekit_api = None.
TeardownClear ==
    /\ entry = "closing"
    /\ livekit_api' = NoApi
    /\ entry' = "done"
    /\ UNCHANGED <<env, disconnected, selected_department, handles,
                   tasks,
                   speaking>>

\* Variant of Commit: the announcement is not requested and the task goes straight to its wait.
CommitWithoutAnnouncement(rec, identity, transfer_number, dept) ==
    [rec EXCEPT !.identity = identity,
                !.transfer_number = transfer_number,
                !.department = dept,
                !.blockers = rec.before \cap InFlightSet,
                !.before = {},
                !.pc = "sleeping"]

\* ---------------------------------------------------------------------
\* _handle_transfer up to its first await: the announcement is requested.
\* ---------------------------------------------------------------------
Commit(rec, identity, transfer_number, dept) ==
    [rec EXCEPT !.identity = identity,
                !.transfer_number = transfer_number,
                !.department = dept,
                !.announced = dept,
                !.blockers = rec.before \cap InFlightSet,
                !.before = {},
                !.pc = "announcing"]

\* ---------------------------------------------------------------------
\* DTMF
\* ---------------------------------------------------------------------

\* handle_dtmf: the room delivers a tone and the handler schedules the task.
DtmfReceived(digit) ==
    /\ entry = "waiting"
    /\ ~disconnected
    /\ Len(tasks) < MaxEvents
    /\ tasks' = Append(tasks, NewTask("dtmf", digit))
    /\ UNCHANGED <<env, entry, disconnected, selected_department,
                   livekit_api, handles,
                   speaking>>

\* Variant of DtmfInterrupt: the handler does not interrupt the session.
DtmfInterruptSkipped(t) ==
    /\ tasks[t].pc = "scheduled"
    /\ speaking' = speaking
    /\ tasks' = [tasks EXCEPT ![t].pc = "interrupting"]
    /\ UNCHANGED <<env, entry, disconnected, selected_department,
                   livekit_api, handles>>

\* _async_handle_dtmf, line 177: session.interrupt() is called and awaited.
DtmfInterrupt(t) ==
    /\ tasks[t].pc = "scheduled"
    /\ speaking' = "none"
    /\ tasks' = [tasks EXCEPT ![t].interrupted = TRUE,
                              ![t].pc = "interrupting"]
    /\ UNCHANGED <<env, entry, disconnected, selected_department,
                   livekit_api, handles>>

\* Variant of Reprompt: the else branch also writes selected_department.
RepromptWritesSelection(t) ==
    /\ selected_department' = "Billing"
    /\ speaking' = "reprompt"
    /\ tasks' = [tasks EXCEPT ![t].reprompted = TRUE,
                              ![t].blockers = @ \cup (tasks[t].before \cap InFlightSet),
                              ![t].before = {},
                              ![t].pc = "reprompting"]

\* The else branch of line 197: the re-prompt is requested.
Reprompt(t) ==
    /\ selected_department' = selected_department
    /\ speaking' = "reprompt"
    /\ tasks' = [tasks EXCEPT ![t].reprompted = TRUE,
                              ![t].blockers = @ \cup (tasks[t].before \cap InFlightSet),
                              ![t].before = {},
                              ![t].pc = "reprompting"]

\* _async_handle_dtmf, lines 178-198: look the digit up; a menu digit
\* writes selected_department and enters _handle_transfer.
DtmfResolve(t) ==
    /\ tasks[t].pc = "interrupting"
    /\ IF tasks[t].token \in DOMAIN department_numbers
       THEN LET env_var == department_numbers[tasks[t].token][1]
                dept_name == department_numbers[tasks[t].token][2]
                transfer_number == FormatStr(Getenv(env_var))
            IN  /\ selected_department' = dept_name
                /\ speaking' = "announce"
                /\ tasks' = [tasks EXCEPT ![t] =
                      Commit(@, CallerIdentity, transfer_number, dept_name)]
       ELSE Reprompt(t)
    /\ UNCHANGED <<env, entry, disconnected, livekit_api, handles>>

\* The re-prompt has been spoken (or interrupted): the task ends.
RepromptDone(t) ==
    /\ tasks[t].pc = "reprompting"
    /\ tasks' = [tasks EXCEPT ![t].pc = "done"]
    /\ UNCHANGED <<env, entry, disconnected, selected_department,
                   livekit_api, handles,
                   speaking>>

\* ---------------------------------------------------------------------
\* Voice: the three function tools
\* ---------------------------------------------------------------------

\* transfer_to_billing / _tech_support / _customer_service up to the
\* first await inside _handle_transfer.
VoiceTool(dept) ==
    /\ entry = "waiting"
    /\ ~disconnected
    /\ Len(tasks) < MaxEvents
    /\ selected_department' = dept
    /\ speaking' = "announce"
    /\ tasks' = Append(tasks,
          Commit(NewTask("voice", dept), LocalIdentity,
                 FormatStr(Getenv(ToolEnvVar(dept))), dept))
    /\ UNCHANGED <<env, entry, disconnected, livekit_api, handles>>

\* ---------------------------------------------------------------------
\* _handle_transfer and transfer_call
\* ---------------------------------------------------------------------

\* Variant of Finished: a tool reports a failed transfer in its result.
FinishedFailureReported(rec) ==
    [rec EXCEPT !.pc = "done",
                !.result = IF rec.kind # "voice" THEN ""
                           ELSE IF rec.outcome = "failed"
                                THEN "Transfer failed."
                                ELSE ToolResult(rec.department)]

\* The caller of _handle_transfer resumes after transfer_call returned:
\* a tool returns its string, the DTMF task ends.
Finished(rec) ==
    [rec EXCEPT !.pc = "done",
                !.result = IF rec.kind = "voice"
                           THEN ToolResult(rec.department) ELSE ""]

\* The announcement has been spoken (or interrupted): line 124 sleeps.
AnnounceDone(t) ==
    /\ tasks[t].pc = "announcing"
    /\ tasks' = [tasks EXCEPT ![t].pc = "sleeping"]
    /\ UNCHANGED <<env, entry, disconnected, selected_department,
                   livekit_api, handles,
                   speaking>>

\* Variant of GraceOver: a later selection event cancels the wait.
GraceOverUnlessNewInput(t) == \A u \in TaskIds : u <= t

\* What resumes a task from asyncio.sleep(6): the timer alone.
GraceOver(t) == TRUE

\* Variant of Failed: the failure leaves the attempt where it was.
FailedStaysInFlight(rec, c) ==
    [rec EXCEPT !.cause = c, !.outcome = "failed", !.apology = TRUE]

\* The try block of transfer_call failed with cause c: when the except
\* clause handles it the apology is requested, otherwise the exception
\* leaves transfer_call and ends the task that awaited it.
Failed(rec, c) ==
    IF Caught(c)
    THEN [rec EXCEPT !.cause = c, !.outcome = "failed",
                     !.apology = TRUE, !.pc = "apologising"]
    ELSE [rec EXCEPT !.cause = c, !.outcome = "failed", !.pc = "raised"]

\* Variant of NeedsClient: a client is created for every attempt.
NeedsClientAlways == TRUE

\* Line 139, `if not userdata.livekit_api`: a client has to be created.
NeedsClient == livekit_api = NoApi

\* Lines 125 and 135-158: the sleep is over and transfer_call runs up to
\* the await of transfer_sip_participant.
GraceElapsed(t) ==
    /\ tasks[t].pc = "sleeping"
    /\ GraceOver(t)
    /\ \/ \* a client exists and is open, or is created now
          /\ IF NeedsClient
             THEN /\ handles' = Append(handles, [open |-> TRUE, closes |-> 0])
                  /\ livekit_api' = Len(handles) + 1
             ELSE /\ handles[livekit_api].open
                  /\ UNCHANGED <<handles, livekit_api>>
          /\ tasks' = [tasks EXCEPT
                ![t].submitted = TRUE,
                ![t].handle = livekit_api',
                ![t].request = TransferRequest(tasks[t].identity,
                                               tasks[t].transfer_number),
                ![t].pc = "submitting"]
          /\ speaking' = speaking
       \/ \* the constructor of line 144 raises
          /\ NeedsClient
          /\ tasks' = [tasks EXCEPT ![t] = Failed(@, "create")]
          /\ speaking' = IF Caught("create") THEN "apology" ELSE speaking
          /\ UNCHANGED <<handles, livekit_api>>
       \/ \* the client was closed by the teardown and not yet cleared
          /\ ~NeedsClient
          /\ ~handles[livekit_api].open
          /\ tasks' = [tasks EXCEPT ![t] = Failed(@, "closed")]
          /\ speaking' = IF Caught("closed") THEN "apology" ELSE speaking
          /\ UNCHANGED <<handles, livekit_api>>
    /\ UNCHANGED <<env, entry, disconnected, selected_department>>

\* transfer_sip_participant returned: lines 159-160, then the caller.
SubmitSucceeded(t) ==
    /\ tasks[t].pc = "submitting"
    /\ tasks' = [tasks EXCEPT ![t] = Finished([@ EXCEPT !.outcome = "ok"])]
    /\ UNCHANGED <<env, entry, disconnected, selected_department,
                   livekit_api, handles,
                   speaking>>

\* transfer_sip_participant raised: lines 161-163.
SubmitFailed(t) ==
    /\ tasks[t].pc = "submitting"
    /\ tasks' = [tasks EXCEPT ![t] = Failed(@, "submit")]
    /\ speaking' = IF Caught("submit") THEN "apology" ELSE speaking
    /\ UNCHANGED <<env, entry, disconnected, selected_department,
                   livekit_api, handles>>

\* The apology has been spoken (or interrupted): transfer_call returns.
ApologyDone(t) ==
    /\ tasks[t].pc = "apologising"
    /\ tasks' = [tasks EXCEPT ![t] = Finished(@)]
    /\ UNCHANGED <<env, entry, disconnected, selected_department,
                   livekit_api, handles,
                   speaking>>

\* ---------------------------------------------------------------------
\* Specification
\* ---------------------------------------------------------------------

\* One step of the asyncio task t.
TaskStep(t) ==
    \/ DtmfInterrupt(t)
    \/ DtmfResolve(t)
    \/ RepromptDone(t)
    \/ AnnounceDone(t)
    \/ GraceElapsed(t)
    \/ SubmitSucceeded(t)
    \/ SubmitFailed(t)
    \/ ApologyDone(t)

Next ==
    \/ EntrypointStart
    \/ Disconnect
    \/ TeardownClose
    \/ TeardownClear
    \/ \E d \in Digits : DtmfReceived(d)
    \/ \E dept \in Departments : VoiceTool(dept)
    \/ \E t \in TaskIds : DtmfInterrupt(t)
    \/ \E t \in TaskIds : DtmfResolve(t)
    \/ \E t \in TaskIds : RepromptDone(t)
    \/ \E t \in TaskIds : AnnounceDone(t)
    \/ \E t \in TaskIds : GraceElapsed(t)
    \/ \E t \in TaskIds : SubmitSucceeded(t)
    \/ \E t \in TaskIds : SubmitFailed(t)
    \/ \E t \in TaskIds : ApologyDone(t)

Spec == Init /\ [][Next]_vars

\* The event loop runs every task that is ready and the entrypoint
\* coroutine once it is woken.
Fairness ==
    /\ \A t \in 1..MaxEvents : WF_vars(t \in TaskIds /\ TaskStep(t))

LiveSpec == Init /\ [][Next]_vars /\ Fairness

\* ---------------------------------------------------------------------
\* Properties
\* ---------------------------------------------------------------------

\* A selection that arrived while a committed transfer was unresolved and
\* was handled while that transfer was still unresolved.
Overlapping(t) == tasks[t].blockers # {}

MenuDigits == {"1", "2", "3"}

InvalidDtmf(rec) == rec.kind = "dtmf" /\ rec.token \notin MenuDigits

\* C1: a selection event that arrives while an earlier committed transfer
\* is still announcing, waiting or submitting is dropped: it causes no
\* transfer submission of its own.
C1_OverlappingSelectionDropped ==
    \A t \in TaskIds : Overlapping(t) => ~tasks[t].submitted

\* C2: while the transfer committed for department A is unresolved, a
\* selection of department B that arrives leaves selected_department at A
\* and no destination other than A's is submitted.
C2_CommittedDepartmentKept ==
    \A u \in TaskIds : \A t \in tasks[u].blockers :
        /\ InFlight(t) => selected_department = tasks[t].department
        /\ tasks[u].submitted =>
              tasks[u].request.transfer_to = tasks[t].transfer_number

\* C3: a transfer whose grace wait the disconnect interrupted is never
\* submitted, and after the teardown no client handle is open or
\* installed.
C3_DisconnectCancelsWait ==
    \A t \in TaskIds :
        tasks[t].discInWait =>
            /\ ~tasks[t].submitted
            /\ entry = "done" =>
                  /\ livekit_api = NoApi
                  /\ \A h \in DOMAIN handles : ~handles[h].open

\* C5: every failure of a transfer attempt, the failure to create the
\* client included, is handled inside transfer_call: the apology is
\* requested and the exception reaches neither the selection handler nor
\* the entrypoint; a successful submission requests no apology and ends
\* the attempt.
C5_FailuresCaught ==
    \A t \in TaskIds :
        /\ tasks[t].pc # "raised"
        /\ tasks[t].outcome = "failed" =>
              /\ tasks[t].apology
              /\ tasks[t].cause \in {"create", "closed", "submit"}
              /\ tasks[t].pc \in {"apologising", "done"}
        /\ tasks[t].outcome = "ok" =>
              /\ ~tasks[t].apology
              /\ tasks[t].pc = "done"
        /\ tasks[t].outcome = "none" => ~tasks[t].apology

\* C5 witness: a client creation failure and a submission failure have
\* both been answered with the apology and their tasks have ended.
C5_Witness ==
    \E t, u \in TaskIds :
        /\ tasks[t].cause = "create" /\ tasks[t].apology
        /\ tasks[t].pc = "done"
        /\ tasks[u].cause = "submit" /\ tasks[u].apology
        /\ tasks[u].pc = "done"
        /\ entry = "waiting"

\* C6: every step of a tone event whose digit is none of 1, 2, 3 (its
\* arrival, its interrupt, its re-prompt) leaves selected_department,
\* the client handle and every other task as they were; the event never
\* announces or submits, and what it requests is the re-prompt.
C6_InvalidDigitOnlyReprompts ==
    [][\A t \in DOMAIN tasks' :
          (/\ InvalidDtmf(tasks'[t])
           /\ (t \notin TaskIds \/ tasks'[t] # tasks[t]))
          => /\ selected_department' = selected_department
             /\ livekit_api' = livekit_api
             /\ handles' = handles
             /\ \A u \in TaskIds \ {t} : tasks'[u] = tasks[u]
             /\ tasks'[t].announced = "" /\ tasks'[t].department = ""
             /\ ~tasks'[t].submitted /\ tasks'[t].request = NoRequest
             /\ tasks'[t].outcome = "none" /\ ~tasks'[t].apology
             /\ tasks'[t].pc \in {"scheduled", "interrupting",
                                  "reprompting", "done"}
             /\ tasks'[t].reprompted <=>
                   tasks'[t].pc \in {"reprompting", "done"}]_vars

\* C6 witness: an invalid digit was answered with the re-prompt while a
\* committed transfer was in flight, and that transfer is still in flight
\* with its department selected.
C6_Witness ==
    \E t, u \in TaskIds :
        /\ InvalidDtmf(tasks[t]) /\ u \in tasks[t].blockers
        /\ tasks[t].reprompted /\ tasks[t].pc = "done"
        /\ InFlight(u) /\ selected_department = tasks[u].department

\* The menu of the instructions (agent.py:61-67): the department a digit
\* stands for and the variable that holds its destination.
MenuDepartment(d) ==
    CASE d = "1" -> "Billing"
      [] d = "2" -> "Tech Support"
      [] d = "3" -> "Customer Service"

MenuVariable(d) ==
    CASE d = "1" -> "BILLING_PHONE_NUMBER"
      [] d = "2" -> "TECH_SUPPORT_PHONE_NUMBER"
      [] d = "3" -> "CUSTOMER_SERVICE_PHONE_NUMBER"

\* C7: when the handler accepts digit d of 1, 2, 3, selected_department
\* becomes the department of d and the announcement names it; the request
\* built for that event carries the address configured for that
\* department and never the address of another department.
C7_DigitRoutesToItsDepartment ==
    [][\A t \in TaskIds :
          (tasks[t].kind = "dtmf" /\ tasks[t].token \in MenuDigits)
          => LET d == tasks[t].token
                 v == MenuVariable(d)
             IN  /\ (tasks[t].pc = "interrupting" /\ tasks'[t].pc # "interrupting")
                    => /\ selected_department' = MenuDepartment(d)
                       /\ tasks'[t].department = MenuDepartment(d)
                       /\ tasks'[t].announced = MenuDepartment(d)
                       /\ tasks'[t].pc = "announcing"
                 /\ (~tasks[t].submitted /\ tasks'[t].submitted)
                    => /\ env[v] # PyNone =>
                             tasks'[t].request.transfer_to = ConfiguredAddress(v)
                       /\ \A w \in EnvVars \ {v} :
                             tasks'[t].request.transfer_to # ConfiguredAddress(w)]_vars

\* C7 witness: digit 2 has been accepted and its request, addressed to
\* the Tech Support destination, has been submitted.
C7_Witness ==
    \E t \in TaskIds :
        /\ tasks[t].kind = "dtmf" /\ tasks[t].token = "2"
        /\ tasks[t].announced = "Tech Support"
        /\ tasks[t].submitted
        /\ tasks[t].request.transfer_to = "+15550002"

\* A new selection is taken from the DTMF channel, from the voice channel.
NewDtmfSelection == \E d \in MenuDigits : DtmfReceived(d)

NewVoiceSelection == \E dept \in Departments : VoiceTool(dept)

Committed(t) == t \in TaskIds /\ InFlight(t)

\* The transfer of task t has resolved: success or failure.
Resolved(t) == t \in TaskIds /\ tasks[t].outcome \in {"ok", "failed"}

C9_HandlesClosedAtTeardown ==
    entry = "done" =>
        \A h \in DOMAIN handles :
            ~handles[h].open /\ handles[h].closes = 1

\* C10: no transfer request is submitted with a destination that is
\* missing from the configuration, on the voice or on the DTMF path: a
\* missing destination stops the startup.
C10_NoUnsetDestinationSubmitted ==
    \A t \in TaskIds :
        tasks[t].submitted =>
            tasks[t].request.transfer_to \in
                {ConfiguredAddress(v) : v \in EnvVars}

\* C11: a DTMF selection and a voice selection of the same department
\* submit the same request: the identity of the caller being transferred,
\* the room name, the department's destination, the dial tone enabled.
C11_SameRequestOnBothPaths ==
    \A t \in TaskIds :
        tasks[t].submitted =>
            /\ tasks[t].request.participant_identity = CallerIdentity
            /\ \A u \in TaskIds :
                  (tasks[u].submitted /\ tasks[u].department = tasks[t].department)
                  => tasks[u].request = tasks[t].request

\* C12: a request is submitted only by a task that is in its grace wait
\* and whose announcement of its own department was requested before; a
\* task enters the grace wait only from its announcement, and a task that
\* is announcing has requested the announcement of its department.
C12_AnnounceWaitThenSubmit ==
    [][\A t \in DOMAIN tasks' :
          /\ (tasks'[t].submitted /\ (t \in TaskIds => ~tasks[t].submitted))
             => /\ t \in TaskIds
                /\ tasks[t].pc = "sleeping"
                /\ tasks[t].announced = tasks[t].department
                /\ tasks[t].announced \in Departments
                /\ tasks'[t].pc = "submitting"
          /\ (tasks'[t].pc = "sleeping" /\ (t \in TaskIds => tasks[t].pc # "sleeping"))
             => /\ t \in TaskIds
                /\ tasks[t].pc = "announcing"
                /\ tasks[t].announced \in Departments
          /\ tasks'[t].pc = "announcing"
             => /\ tasks'[t].announced = tasks'[t].department
                /\ tasks'[t].announced \in Departments]_vars

\* C12 witness: two overlapping selections have both been submitted, each
\* after its own announcement.
C12_Witness ==
    \E t, u \in TaskIds :
        /\ t \in tasks[u].blockers
        /\ tasks[t].submitted /\ tasks[u].submitted
        /\ tasks[t].announced = tasks[t].department
        /\ tasks[u].announced = tasks[u].department
        /\ tasks[t].department # tasks[u].department

\* C13: for every tone event, menu digit or not, session.interrupt() is
\* called before the digit is looked up: the step that writes
\* selected_department and announces, or that re-prompts, is taken by a
\* task that has interrupted, and the interrupt is the task's first step.
C13_InterruptBeforeResolve ==
    [][\A t \in TaskIds :
          tasks[t].kind = "dtmf" =>
              /\ (tasks[t].pc = "scheduled" /\ tasks'[t].pc # "scheduled")
                 => /\ tasks'[t].pc = "interrupting"
                    /\ tasks'[t].interrupted
                    /\ speaking' = "none"
                    /\ selected_department' = selected_department
                    /\ tasks'[t].announced = "" /\ ~tasks'[t].reprompted
              /\ (\/ tasks'[t].announced # tasks[t].announced
                  \/ tasks'[t].reprompted # tasks[t].reprompted
                  \/ tasks'[t].department # tasks[t].department)
                 => /\ tasks[t].interrupted
                    /\ tasks[t].pc = "interrupting"]_vars

\* C13 witness: a menu digit has been announced and another digit has
\* been answered with the re-prompt, each after its interrupt.
C13_Witness ==
    \E t, u \in TaskIds :
        /\ tasks[t].kind = "dtmf" /\ tasks[t].token \in MenuDigits
        /\ tasks[t].interrupted /\ tasks[t].announced # ""
        /\ InvalidDtmf(tasks[u])
        /\ tasks[u].interrupted /\ tasks[u].reprompted

\* A valid selection is handled in this step by task t: a tool is invoked
\* or a menu digit is resolved.
SelectsNow(t) ==
    /\ tasks'[t].pc = "announcing"
    /\ t \in TaskIds => tasks[t].pc = "interrupting"
    /\ \/ tasks'[t].kind = "voice" /\ tasks'[t].token \in Departments
       \/ tasks'[t].kind = "dtmf" /\ tasks'[t].token \in MenuDigits

\* C14: selected_department is empty until the first valid selection;
\* every change of it is made by a valid selection (a tool invocation or
\* digit 1, 2, 3) and sets it to that selection's department, one of the
\* three names; once set it is never empty again, whatever succeeds,
\* fails, is re-prompted or disconnects.
C14_SelectedDepartmentOnlySet ==
    /\ selected_department = PyNone
    /\ [][/\ selected_department' # selected_department
             => /\ selected_department' \in Departments
                /\ \E t \in DOMAIN tasks' :
                      /\ SelectsNow(t)
                      /\ tasks'[t].department = selected_department'
          /\ selected_department # PyNone => selected_department' # PyNone
          /\ (\A t \in DOMAIN tasks' : tasks'[t].department = "")
             => selected_department' = PyNone]_vars

\* C14 witness: the call is over (teardown done) after one transfer
\* succeeded and one failed, and selected_department still names a
\* department.
C14_Witness ==
    /\ entry = "done"
    /\ selected_department \in Departments
    /\ \E t, u \in TaskIds :
          /\ tasks[t].outcome = "ok" /\ tasks[t].pc = "done"
          /\ tasks[u].outcome = "failed" /\ tasks[u].pc = "done"

\* The call is live: the teardown of the entrypoint has not completed.
CallLive == entry # "done"

\* C15: while the call is live at most one client exists; none exists
\* before a transfer attempt has reached the submit step, the installed
\* handle is that client, and every attempt that submits uses it, however
\* the attempts overlap or repeat.
C15_ClientCreatedOnceLazily ==
    CallLive =>
        /\ Len(handles) <= 1
        /\ handles # <<>> => \E t \in TaskIds : tasks[t].submitted
        /\ livekit_api \in {NoApi} \cup DOMAIN handles
        /\ (handles # <<>> /\ entry \in {"connect", "waiting"}) => livekit_api = 1
        /\ \A t \in TaskIds : tasks[t].submitted => tasks[t].handle = 1

\* C15 witness: two transfers whose attempts overlapped have both been
\* submitted on the one client of the live call.
C15_Witness ==
    /\ CallLive /\ ~disconnected
    /\ Len(handles) = 1
    /\ \E t, u \in TaskIds :
          /\ t \in tasks[u].blockers
          /\ tasks[t].submitted /\ tasks[u].submitted
          /\ tasks[t].handle = livekit_api /\ tasks[u].handle = livekit_api

\* The confirmation each tool is documented to return.
Confirmation(dept) ==
    CASE dept = "Billing" -> "Transferring to Billing department."
      [] dept = "Tech Support" -> "Transferring to Tech Support department."
      [] dept = "Customer Service" ->
            "Transferring to Customer Service department."

\* C16: a tool invocation has returned exactly when its task has ended;
\* by then its announcement was requested and its transfer attempt has
\* resolved, and the string returned is the confirmation for the tool's
\* own department, after a success and after a failure alike.  A tone
\* task returns no string.
C16_ToolReturnsConfirmationLast ==
    \A t \in TaskIds :
        /\ tasks[t].kind = "voice" =>
              /\ tasks[t].result # "" <=> tasks[t].pc = "done"
              /\ tasks[t].pc = "done" =>
                    /\ tasks[t].result = Confirmation(tasks[t].token)
                    /\ tasks[t].announced = tasks[t].token
                    /\ tasks[t].outcome \in {"ok", "failed"}
                    /\ tasks[t].outcome = "failed" => tasks[t].apology
                    /\ tasks[t].outcome = "ok" => tasks[t].submitted
        /\ tasks[t].kind = "dtmf" => tasks[t].result = ""

\* C16 witness: one tool has returned after a successful submission and
\* another after a failed one, each with its own confirmation.
C16_Witness ==
    \E t, u \in TaskIds :
        /\ tasks[t].kind = "voice" /\ tasks[u].kind = "voice"
        /\ tasks[t].outcome = "ok" /\ tasks[u].outcome = "failed"
        /\ tasks[t].result = Confirmation(tasks[t].token)
        /\ tasks[u].result = Confirmation(tasks[u].token)
        /\ tasks[t].token # tasks[u].token

====
